---- MODULE Spec2Model ----
(***************************************************************************)
(* The component layer of evennia.contrib.base_systems.components: the     *)
(* class registry (listing.py, BaseComponent in component.py), the         *)
(* component instances (component.py), the per-host ComponentHandler       *)
(* (holder.py) and the field descriptors (dbfield.py).                     *)
(*                                                                         *)
(* The whole program state is threaded through the operators as one record *)
(* s; an operator that models a method returns the state the method leaves *)
(* behind, with s.err naming the exception it raised ("ok" when it         *)
(* returned).  A raise keeps every assignment made before it, as in Python. *)
(***************************************************************************)
EXTENDS Integers, Sequences, FiniteSets, TLC

VARIABLES
    COMPONENT_LISTING,  \* listing.py: component key -> component class
    nclasses,           \* class statements executed in this process
    attributes,         \* host -> persisted attribute store (host.db)
    nattributes,        \* host -> in-memory attribute store (host.ndb)
    tags,               \* host -> set of <<tag, category>> (host.tags)
    cmdset,             \* host -> command sets on the host (host.cmdset)
    loaded_components,  \* host -> ComponentHandler._loaded_components
    listeners,          \* host -> objects registered with host.signals
    instances,          \* live component instances: id -> [cls, host]
    last                \* the last call made (op) and how it ended (err)

vars == <<COMPONENT_LISTING, nclasses, attributes, nattributes, tags, cmdset,
          loaded_components, listeners, instances, last>>

----------------------------------------------------------------------------
(* Bounds of the model. *)

\* component classes a process defines on top of the library's own
MaxClasses == 2
\* length of a host's persisted key list at which add() is no longer tried
MaxKeys == 2
\* component instances alive at one time
MaxInst == 2

----------------------------------------------------------------------------
(* Python values. *)

\* Python's None; also stands for an attribute a class does not have.
None == "None"

\* bool(x) is False for None and for the empty string.
Falsy(x) == x = None \/ x = ""

Hosts == {"A", "B"}

InstIds == 1..MaxInst

\* dict / attribute-store helpers
Put(f, k, v) == [x \in (DOMAIN f) \cup {k} |-> IF x = k THEN v ELSE f[x]]

Del(f, k) == [x \in (DOMAIN f) \ {k} |-> f[x]]

Get(f, k, default) == IF k \in DOMAIN f THEN f[k] ELSE default

\* list.remove(x): the list without the first occurrence of x
RECURSIVE ListRemove(_, _)
ListRemove(l, x) ==
    IF l = <<>> THEN <<>>
    ELSE IF Head(l) = x THEN Tail(l)
    ELSE <<Head(l)>> \o ListRemove(Tail(l), x)

InList(l, x) == \E n \in 1..Len(l) : l[n] = x

----------------------------------------------------------------------------
(* Exceptions: s.err is the exception as Python reports it, without the   *)
(* values its message interpolates; s.msg holds those values.             *)

Ok(s) == s.err = "ok"

Raise(s, type, mentions) == [s EXCEPT !.err = type, !.msg = mentions]

\* what getting an attribute of None raises
NoneTypeError(attr) ==
    "AttributeError: 'NoneType' object has no attribute '" \o attr \o "'"

----------------------------------------------------------------------------
(* Component classes.  A class is the record of the attributes getattr     *)
(* finds on it (its own or inherited); serial tells two classes with the   *)
(* same attributes apart.  Component declares neither name nor slot: a     *)
(* class has them only when its own body declares them (None when not).    *)

NewClass(serial, def) ==
    [serial |-> serial, component_key |-> def.component_key,
     component_slot |-> def.component_slot, name |-> def.name,
     slot |-> Get(def, "slot", None),
     cmd_set |-> def.cmd_set, db_fields |-> def.db_fields,
     ndb_fields |-> Get(def, "ndb_fields", <<>>),
     tag_fields |-> Get(def, "tag_fields", <<>>)]

\* the body of a class statement: the attributes getattr finds on the class;
\* db_fields is its _db_fields table (what db_field_names enumerates), a
\* sequence of [name, default] with one entry per DBField of the class body.
\* The table is filled by owner.add_field, which DBField.__set_name__ calls
\* and component.py does not define: it is taken to enter the field under
\* its name.
ClassDef(key, slot, name, cmds, fields) ==
    [component_key |-> key, component_slot |-> slot, name |-> name,
     cmd_set |-> cmds, db_fields |-> fields]

\* class Component(metaclass=BaseComponent): component_key = "",
\* component_slot = "", no name attribute, cmd_set = None
ComponentBase == NewClass(0, ClassDef("", "", None, None, <<>>))

get_component_key(cls) ==
    IF ~Falsy(cls.component_key) THEN cls.component_key
    ELSE IF cls.name = None THEN "" ELSE cls.name

get_component_slot(cls) ==
    IF ~Falsy(cls.component_slot) THEN cls.component_slot
    ELSE IF cls.name = None THEN "" ELSE cls.name

\* BaseComponent.__new__ keeping the class first published under a key
BaseComponent_new_KeepsFirst(s, cls) ==
    LET key == IF Falsy(cls.component_key) /\ Falsy(cls.component_slot)
               THEN cls.name ELSE cls.component_key
    IN
    IF ~Falsy(cls.component_key) /\ Falsy(cls.component_slot)
    THEN Raise(s, "ValueError: A component_slot is required", {})
    ELSE IF Falsy(cls.component_key) /\ ~Falsy(cls.component_slot)
    THEN Raise(s, "ValueError: A component_key is required", {})
    ELSE IF key \in DOMAIN s.listing THEN s
    ELSE [s EXCEPT !.listing = Put(s.listing, key, cls)]

\* BaseComponent.__new__ accepting a class that declares a key and no slot
BaseComponent_new_SlotOptional(s, cls) ==
    IF Falsy(cls.component_key) /\ Falsy(cls.component_slot)
    THEN [s EXCEPT !.listing = Put(s.listing, cls.name, cls)]
    ELSE IF Falsy(cls.component_key)
    THEN Raise(s, "ValueError: A component_key is required", {})
    ELSE [s EXCEPT !.listing = Put(s.listing, cls.component_key, cls)]

\* BaseComponent.__new__: validate the new class and publish it
BaseComponent_new(s, cls) ==
    IF Falsy(cls.component_key) /\ Falsy(cls.component_slot)
    THEN [s EXCEPT !.listing = Put(s.listing, cls.name, cls)]
    ELSE IF Falsy(cls.component_key)
    THEN Raise(s, "ValueError: A component_key is required", {})
    ELSE IF Falsy(cls.component_slot)
    THEN Raise(s, "ValueError: A component_slot is required", {})
    ELSE [s EXCEPT !.listing = Put(s.listing, cls.component_key, cls)]

\* listing.get_component_class: raises when the key is not in the listing;
\* otherwise the class returned is s.listing[component_key]
get_component_class(s, component_key) ==
    IF component_key \notin DOMAIN s.listing
    THEN Raise(s, "ComponentDoesNotExist", {component_key})
    ELSE s

----------------------------------------------------------------------------
(* Persisted fields (dbfield.py). *)

\* DBField.__set_name__: the storage key of a field of class cls
DBField_key(cls, field) == get_component_slot(cls) \o "::" \o field.name

\* DBField.__get__(instance): the value read through the component
DBField_value(s, i, field) ==
    Get(s.attrs[s.inst[i].host], DBField_key(s.inst[i].cls, field),
        field.default)

\* DBField.__set__(instance, value): component.<field> = value
DBField_set(s, i, field, value) ==
    LET self == s.inst[i] IN
    IF self.host = None THEN Raise(s, NoneTypeError("attributes"), {})
    ELSE [s EXCEPT !.attrs[self.host] =
              Put(@, DBField_key(self.cls, field), value)]

----------------------------------------------------------------------------
(* Values assigned to fields.  A value is a record that tells its Python   *)
(* type, so that isinstance and getattr(value, "key", None) can be asked:  *)
(* val is its text, key its key attribute (None when it has none).         *)

PyStr(x) == [type |-> "str", val |-> x, key |-> None]

PyInt(x) == [type |-> "int", val |-> x, key |-> None]

PyObj(x, key) == [type |-> "object", val |-> x, key |-> key]

PyNone == [type |-> "NoneType", val |-> "None", key |-> None]

----------------------------------------------------------------------------
(* HostField and KeyField (dbfield.py).  Both are DBFields, entered in the *)
(* class's _db_fields table; kind tells the descriptor class of an entry.  *)

Kind(field) == Get(field, "kind", "DBField")

\* `owner.slot or owner.name` of HostField/KeyField.__set_name__: what it
\* raises, and its value when it does not raise
SlotNameError(cls) ==
    IF cls.slot = None
    THEN "AttributeError: type object has no attribute 'slot'"
    ELSE IF Falsy(cls.slot) /\ cls.name = None
    THEN "AttributeError: type object has no attribute 'name'"
    ELSE "ok"

SlotName(cls) == IF ~Falsy(cls.slot) THEN cls.slot ELSE cls.name

\* HostField.__set_name__: _key and host_attribute
HostField_key(cls, field) == SlotName(cls) \o "::" \o field.name

HostField_attribute(cls, field) ==
    IF field.host_attribute = None
    THEN SlotName(cls) \o "_" \o field.name
    ELSE field.host_attribute

\* KeyField.__set_name__: _key
KeyField_key(cls, field) == SlotName(cls) \o "::" \o field.name \o "_key"

\* the _key of an entry of the _db_fields table
StorageKey(cls, field) ==
    IF Kind(field) = "KeyField" THEN KeyField_key(cls, field)
    ELSE IF Kind(field) = "HostField" THEN HostField_key(cls, field)
    ELSE DBField_key(cls, field)

\* __set_name__ of one descriptor of a class body
set_name(s, cls, field) ==
    IF Kind(field) \in {"KeyField", "HostField"} /\ SlotNameError(cls) # "ok"
    THEN Raise(s, SlotNameError(cls), {})
    ELSE s

\* type.__new__ calls __set_name__ on every descriptor of the class body
RECURSIVE SetNames(_, _, _)
SetNames(s, cls, fields) ==
    IF fields = <<>> \/ ~Ok(s) THEN s
    ELSE SetNames(set_name(s, cls, Head(fields)), cls, Tail(fields))

\* the attributes of the host objects themselves (getattr(host, ...)):
\* host A has a strength, host B has none
HostAttributes == [h \in Hosts |->
    IF h = "A" THEN [strength |-> PyInt("12")] ELSE <<>>]

\* HostField.__get__ on a component bound to a host
HostField_get(s, i, field) ==
    LET self == s.inst[i]
        override == Get(s.attrs[self.host], HostField_key(self.cls, field), PyNone)
        value == Get(HostAttributes[self.host],
                     HostField_attribute(self.cls, field), field.default)
    IN IF field.overridable /\ override # PyNone THEN override ELSE value

\* HostField.__set__ without its assertion
HostField_set_Unguarded(s, i, field, value) ==
    LET self == s.inst[i] IN
    IF self.host = None THEN Raise(s, NoneTypeError("attributes"), {})
    ELSE [s EXCEPT !.attrs[self.host] =
              Put(@, HostField_key(self.cls, field), value)]

\* HostField.__set__
HostField_set(s, i, field, value) ==
    LET self == s.inst[i] IN
    IF ~field.overridable
    THEN Raise(s, "AssertionError: Cannot set a non-overridable host field", {})
    ELSE IF self.host = None THEN Raise(s, NoneTypeError("attributes"), {})
    ELSE [s EXCEPT !.attrs[self.host] =
              Put(@, HostField_key(self.cls, field), value)]

\* KeyField.__get__ on a component bound to a host: listing.get(key)
KeyField_get(s, i, field) ==
    LET self == s.inst[i]
        key == Get(s.attrs[self.host], KeyField_key(self.cls, field),
                   field.default)
    IN IF key.type = "str" /\ key.val \in DOMAIN field.listing
       THEN field.listing[key.val]
       ELSE PyNone

\* KeyField.__set__ storing whatever it is given
KeyField_set_StoresValue(s, i, field, value) ==
    LET self == s.inst[i] IN
    IF self.host = None THEN Raise(s, NoneTypeError("attributes"), {})
    ELSE [s EXCEPT !.attrs[self.host] =
              Put(@, KeyField_key(self.cls, field), value)]

\* KeyField.__set__
KeyField_set(s, i, field, value) ==
    LET self == s.inst[i]
        stored == IF value.type \notin {"str", "int"}
                  THEN PyStr(value.key) ELSE value
    IN
    IF value.type \notin {"str", "int"} /\ Falsy(value.key)
    THEN Raise(s, "ValueError: Only str, int, or instances with keys are supported",
               {})
    ELSE IF self.host = None THEN Raise(s, NoneTypeError("attributes"), {})
    ELSE [s EXCEPT !.attrs[self.host] =
              Put(@, KeyField_key(self.cls, field), stored)]

\* setattr(component, name, value): the descriptor's __set__
Field_set(s, i, field, value) ==
    IF Kind(field) = "KeyField" THEN KeyField_set(s, i, field, value)
    ELSE IF Kind(field) = "HostField" THEN HostField_set(s, i, field, value)
    ELSE DBField_set(s, i, field, value)

\* getattr(component, name) on a component bound to a host
Field_get(s, i, field) ==
    IF Kind(field) = "KeyField" THEN KeyField_get(s, i, field)
    ELSE IF Kind(field) = "HostField" THEN HostField_get(s, i, field)
    ELSE DBField_value(s, i, field)

----------------------------------------------------------------------------
(* Component instances (component.py). *)

\* the smallest instance id not in use: the object a constructor call makes
FreshId(s) == CHOOSE i \in InstIds : i \notin DOMAIN s.inst /\
                  \A j \in InstIds : j < i => j \in DOMAIN s.inst

\* Component.__init__(host), reached through cls(host), default_create,
\* create without overrides, and load
Component_init(s, cls, host) ==
    IF ~((~Falsy(cls.component_slot) /\ ~Falsy(cls.component_key))
         \/ ~Falsy(cls.name))
    THEN Raise(s, "AssertionError", {})
    ELSE [s EXCEPT !.inst = Put(s.inst, FreshId(s), [cls |-> cls, host |-> host])]

\* a load that writes every declared field's default back to the host
load_ReappliesDefaults(s, cls, host) ==
    LET s1 == Component_init(s, cls, host)
        fields == cls.db_fields
        keys == {DBField_key(cls, fields[n]) : n \in 1..Len(fields)}
        default(k) ==
            fields[CHOOSE n \in 1..Len(fields) : DBField_key(cls, fields[n]) = k].default
    IN
    IF Ok(s1) /\ host # None
    THEN [s1 EXCEPT !.attrs[host] =
              [k \in (DOMAIN @) \cup keys |->
                  IF k \in keys THEN default(k) ELSE @[k]]]
    ELSE s1

\* Component.load(host): cls(host) and nothing else
load(s, cls, host) == Component_init(s, cls, host)

\* Component.default_create(host)
default_create(s, cls, host) == Component_init(s, cls, host)

\* at_added registering the command set and binding before it checks
at_added_ChecksLast(s, i, host) ==
    LET self == s.inst[i]
        s1 == IF ~Falsy(self.cls.cmd_set)
              THEN [s EXCEPT !.cmdset[host] = @ \cup {self.cls.cmd_set}]
              ELSE s
        s2 == [s1 EXCEPT !.inst[i].host = host]
    IN IF self.host # None /\ self.host # host
       THEN Raise(s2, "ComponentRegisterError", {})
       ELSE s2

\* Component.at_added(host)
at_added(s, i, host) ==
    LET self == s.inst[i] IN
    IF self.host # None /\ self.host # host
    THEN Raise(s, "ComponentRegisterError", {})
    ELSE IF ~Falsy(self.cls.cmd_set) /\ self.host = None
    THEN Raise(s, NoneTypeError("cmdset"), {})
    ELSE LET s1 == IF ~Falsy(self.cls.cmd_set)
                   THEN [s EXCEPT !.cmdset[self.host] = @ \cup {self.cls.cmd_set}]
                   ELSE s
         IN [s1 EXCEPT !.inst[i].host = host]

\* Component.at_removed(host)
at_removed(s, i, host) ==
    LET self == s.inst[i] IN
    IF host # self.host
    THEN Raise(s, "ValueError: Component attempted to remove from the wrong host.",
               {})
    ELSE LET s1 == IF ~Falsy(self.cls.cmd_set)
                   THEN [s EXCEPT !.cmdset[self.host] = @ \ {self.cls.cmd_set}]
                   ELSE s
         IN [s1 EXCEPT !.inst[i].host = None]

\* NDBField.__get__(instance): the in-memory value read through the component
NDBField_value(s, i, field) ==
    Get(s.nattrs[s.inst[i].host], DBField_key(s.inst[i].cls, field),
        field.default)

\* NDBField.__set__(instance, value)
NDBField_set(s, i, field, value) ==
    LET self == s.inst[i] IN
    IF self.host = None THEN Raise(s, NoneTypeError("nattributes"), {})
    ELSE [s EXCEPT !.nattrs[self.host] =
              Put(@, DBField_key(self.cls, field), value)]

\* delattr(component, name) for a persisted field: the attribute under the
\* field's storage key is removed from the host, silently when there is none
DBField_delete(s, i, field) ==
    LET self == s.inst[i] IN
    IF self.host = None THEN Raise(s, NoneTypeError("attributes"), {})
    ELSE [s EXCEPT !.attrs[self.host] = Del(@, StorageKey(self.cls, field))]

\* delattr(component, name) for an in-memory field
NDBField_delete(s, i, field) ==
    LET self == s.inst[i] IN
    IF self.host = None THEN Raise(s, NoneTypeError("nattributes"), {})
    ELSE [s EXCEPT !.nattrs[self.host] = Del(@, DBField_key(self.cls, field))]

RECURSIVE DeleteFields(_, _, _, _)
DeleteFields(s, i, db, ndb) ==
    IF ~Ok(s) THEN s
    ELSE IF db # <<>>
    THEN DeleteFields(DBField_delete(s, i, Head(db)), i, Tail(db), ndb)
    ELSE IF ndb # <<>>
    THEN DeleteFields(NDBField_delete(s, i, Head(ndb)), i, db, Tail(ndb))
    ELSE s

\* a cleanup that goes through the persisted fields only
cleanup_PersistedOnly(s, i) ==
    DeleteFields(s, i, s.inst[i].cls.db_fields, <<>>)

\* Component.cleanup(): delattr for every name of _all_db_field_names, the
\* persisted fields first
cleanup(s, i) ==
    DeleteFields(s, i, s.inst[i].cls.db_fields, s.inst[i].cls.ndb_fields)

----------------------------------------------------------------------------
(* Tag fields (dbfield.py).  A class's tag_fields is its _tag_fields table, *)
(* a sequence of [name, default, enforce_single] in declaration order.      *)

TagCategory(cls, field) == get_component_slot(cls) \o "::" \o field.name

\* TagHandler.clear(category=...)
TagsClear(tagset, category) == {t \in tagset : t[2] # category}

\* TagField.__set__ that never clears the category
TagField_set_NeverClears(s, i, field, value) ==
    LET self == s.inst[i] IN
    IF self.host = None THEN Raise(s, NoneTypeError("tags"), {})
    ELSE [s EXCEPT !.tags[self.host] =
              @ \cup {<<value, TagCategory(self.cls, field)>>}]

\* TagField.__set__(instance, value)
TagField_set(s, i, field, value) ==
    LET self == s.inst[i] IN
    IF self.host = None THEN Raise(s, NoneTypeError("tags"), {})
    ELSE LET cat == TagCategory(self.cls, field)
             cleared == IF field.enforce_single
                        THEN TagsClear(s.tags[self.host], cat)
                        ELSE s.tags[self.host]
         IN [s EXCEPT !.tags[self.host] = cleared \cup {<<value, cat>>}]

\* TagField.__delete__(instance)
TagField_delete(s, i, field) ==
    LET self == s.inst[i] IN
    IF self.host = None THEN Raise(s, NoneTypeError("tags"), {})
    ELSE [s EXCEPT !.tags[self.host] =
              TagsClear(@, TagCategory(self.cls, field))]

----------------------------------------------------------------------------
(* ComponentHandler (holder.py); h is the handler's host. *)

\* the db_keys property: the persisted key list, created (from the legacy
\* component_names when there are any) the first time it is asked for
db_keys(s, h) ==
    IF "component_keys" \in DOMAIN s.attrs[h] THEN s
    ELSE [s EXCEPT !.attrs[h] =
              Put(@, "component_keys", Get(@, "component_names", <<>>))]

\* what dict.get returns for a key the cache does not hold (Python's None,
\* as a value comparable with instance ids)
NoInstance == 0

get_by_key(s, h, component_key) == Get(s.cache[h], component_key, NoInstance)

get_by_slot(s, h, slot_key) == Get(s.cache[h], slot_key, NoInstance)

has_slot(s, h, slot_key) == slot_key \in DOMAIN s.cache[h]

\* ComponentHandler.__getattr__(slot_key): handler.<slot>
ComponentHandler_getattr(s, h, slot_key) == get_by_slot(s, h, slot_key)

_set_component(s, h, i) ==
    LET cls == s.inst[i].cls
        s1 == [s EXCEPT !.cache[h] = Put(@, get_component_slot(cls), i)]
        s2 == [s1 EXCEPT !.cache[h] = Put(@, get_component_key(cls), i)]
    IN [s2 EXCEPT !.listeners[h] = @ \cup {i}]

RECURSIVE AddTagDefaults(_, _, _)
AddTagDefaults(s, i, fields) ==
    IF fields = <<>> \/ ~Ok(s) THEN s
    ELSE LET f == Head(fields)
             s1 == IF ~Falsy(f.default) THEN TagField_set(s, i, f, f.default)
                   ELSE s
         IN AddTagDefaults(s1, i, Tail(fields))

_add_component_tags(s, h, i) ==
    LET cls == s.inst[i].cls
        s1 == [s EXCEPT !.tags[h] =
                   @ \cup {<<get_component_slot(cls), "components">>}]
    IN AddTagDefaults(s1, i, cls.tag_fields)

RECURSIVE DelTagFields(_, _, _)
DelTagFields(s, i, fields) ==
    IF fields = <<>> \/ ~Ok(s) THEN s
    ELSE DelTagFields(TagField_delete(s, i, Head(fields)), i, Tail(fields))

_remove_component_tags(s, h, i) ==
    LET cls == s.inst[i].cls
        s1 == [s EXCEPT !.tags[h] =
                   @ \ {<<get_component_key(cls), "components">>}]
    IN DelTagFields(s1, i, cls.tag_fields)

\* an add that leaves the persisted list alone when the slot is attached
add_KeepsListWhenAttached(s, h, i) ==
    LET component_key == get_component_key(s.inst[i].cls)
        s0 == db_keys(s, h)
        s1 == IF has_slot(s, h, get_component_slot(s.inst[i].cls)) THEN s0
              ELSE [s0 EXCEPT !.attrs[h].component_keys = Append(@, component_key)]
        s2 == _set_component(s1, h, i)
        s3 == _add_component_tags(s2, h, i)
    IN IF Ok(s3) THEN at_added(s3, i, h) ELSE s3

\* ComponentHandler.add(component)
add(s, h, i) ==
    LET component_key == get_component_key(s.inst[i].cls)
        s0 == db_keys(s, h)
        s1 == [s0 EXCEPT !.attrs[h].component_keys = Append(@, component_key)]
        s2 == _set_component(s1, h, i)
        s3 == _add_component_tags(s2, h, i)
    IN IF Ok(s3) THEN at_added(s3, i, h) ELSE s3

\* ComponentHandler.add_default(key)
add_default(s, h, key) ==
    LET s1 == get_component_class(s, key) IN
    IF ~Ok(s1) THEN s1
    ELSE LET i == FreshId(s)
             s2 == default_create(s1, s.listing[key], h)
         IN IF Ok(s2) THEN add(s2, h, i) ELSE s2

\* remove calling at_removed before it checks that the slot is registered
remove_UnbindsFirst(s, h, i) ==
    LET cls == s.inst[i].cls
        slot_key == get_component_slot(cls)
        s1 == at_removed(s, i, h)
    IN
    IF ~Ok(s1) THEN s1
    ELSE IF ~has_slot(s1, h, slot_key)
    THEN Raise(s1, "ComponentIsNotRegistered", {slot_key, h})
    ELSE [s1 EXCEPT !.cache[h] = Del(@, slot_key)]

\* a remove that discards the component's field values as well
remove_WithCleanup(s, h, i) ==
    LET cls == s.inst[i].cls
        slot_key == get_component_slot(cls)
    IN
    IF ~has_slot(s, h, slot_key)
    THEN Raise(s, "ComponentIsNotRegistered", {slot_key, h})
    ELSE
    LET s0 == cleanup(s, i)
        s1 == IF Ok(s0) THEN at_removed(s0, i, h) ELSE s0 IN
    IF ~Ok(s1) THEN s1 ELSE
    LET s2 == IF ~Falsy(cls.cmd_set)
              THEN [s1 EXCEPT !.cmdset[h] = @ \ {cls.cmd_set}]
              ELSE s1
        s3 == _remove_component_tags(s2, h, i)
    IN
    IF ~Ok(s3) THEN s3 ELSE
    LET s4 == [s3 EXCEPT !.listeners[h] = @ \ {i}]
        s5 == db_keys(s4, h)
    IN
    IF ~InList(s5.attrs[h].component_keys, slot_key)
    THEN Raise(s5, "ValueError: list.remove(x): x not in list", {})
    ELSE LET s6 == [s5 EXCEPT !.attrs[h].component_keys =
                        ListRemove(@, slot_key)]
         IN [s6 EXCEPT !.cache[h] = Del(@, slot_key)]

\* ComponentHandler.remove(component)
remove(s, h, i) ==
    LET cls == s.inst[i].cls
        slot_key == get_component_slot(cls)
    IN
    IF ~has_slot(s, h, slot_key)
    THEN Raise(s, "ComponentIsNotRegistered", {slot_key, h})
    ELSE
    LET s1 == at_removed(s, i, h) IN
    IF ~Ok(s1) THEN s1 ELSE
    LET s2 == IF ~Falsy(cls.cmd_set)
              THEN [s1 EXCEPT !.cmdset[h] = @ \ {cls.cmd_set}]
              ELSE s1
        s3 == _remove_component_tags(s2, h, i)
    IN
    IF ~Ok(s3) THEN s3 ELSE
    LET s4 == [s3 EXCEPT !.listeners[h] = @ \ {i}]
        s5 == db_keys(s4, h)
    IN
    IF ~InList(s5.attrs[h].component_keys, slot_key)
    THEN Raise(s5, "ValueError: list.remove(x): x not in list", {})
    ELSE LET s6 == [s5 EXCEPT !.attrs[h].component_keys =
                        ListRemove(@, slot_key)]
         IN [s6 EXCEPT !.cache[h] = Del(@, slot_key)]

\* ComponentHandler.remove_by_slot_key(slot_key)
remove_by_slot_key(s, h, slot_key) ==
    LET instance == get_by_slot(s, h, slot_key) IN
    IF instance = NoInstance
    THEN Raise(s, "ComponentIsNotRegistered", {slot_key, h})
    ELSE remove(s, h, instance)

\* the loop of ComponentHandler.initialize
RECURSIVE InitializeLoop(_, _, _)
InitializeLoop(s, h, component_keys) ==
    IF component_keys = <<>> \/ ~Ok(s) THEN s
    ELSE
    LET component_key == Head(component_keys)
        s1 == get_component_class(s, component_key)
    IN
    IF ~Ok(s1) THEN s1
    ELSE
    LET component == s1.listing[component_key] IN
    \* a class object is true: the else branch is never taken
    IF TRUE
    THEN LET i == FreshId(s1)
             s2 == load(s1, component, h)
         IN IF Ok(s2)
            THEN InitializeLoop(_set_component(s2, h, i), h, Tail(component_keys))
            ELSE s2
    ELSE Raise(s1, "ComponentDoesNotExist", {component_key, h})

\* ComponentHandler.initialize()
initialize(s, h) ==
    LET s1 == db_keys(s, h)
        component_keys == s1.attrs[h].component_keys
    IN IF component_keys = <<>> THEN s1
       ELSE InitializeLoop(s1, h, component_keys)

----------------------------------------------------------------------------
(* The classes of the game code, in definition order.  Health has key and  *)
(* slot equal, carries a command set and declares current = DBField(100);  *)
(* Body has key and slot equal; Armor has a key of its own, mounts in the  *)
(* slot "body" and declares rating = DBField(10).                          *)

HealthDef ==
    ClassDef("health", "health", None, "HealthCmdSet",
             <<[name |-> "current", default |-> 100]>>)

BodyDef == ClassDef("body", "body", None, None, <<>>)

ArmorDef ==
    ClassDef("armor", "body", None, None,
             <<[name |-> "rating", default |-> 10]>>)

\* the game code as deployed, and the same code after Armor was deleted
CodeVersions == {<<HealthDef, BodyDef, ArmorDef>>, <<HealthDef, BodyDef>>}

\* strings used as keys and slots by callers
Names == {"health", "body", "armor"}

\* the class statement: the metaclass builds the class and registers it
DefineClass(s, def) ==
    LET n == s.nclasses + 1
        cls == NewClass(n, def)
        s1 == SetNames([s EXCEPT !.nclasses = n], cls,
                       cls.db_fields \o cls.ndb_fields \o cls.tag_fields)
    IN IF Ok(s1) THEN BaseComponent_new(s1, cls) ELSE s1

RECURSIVE ImportModule(_, _)
ImportModule(s, defs) ==
    IF defs = <<>> \/ ~Ok(s) THEN s
    ELSE ImportModule(DefineClass(s, Head(defs)), Tail(defs))

----------------------------------------------------------------------------
(* The state record and the variables. *)

Cur == [listing |-> COMPONENT_LISTING, nclasses |-> nclasses,
        attrs |-> attributes, nattrs |-> nattributes,
        tags |-> tags, cmdset |-> cmdset,
        cache |-> loaded_components, listeners |-> listeners,
        inst |-> instances, err |-> "ok", msg |-> {}, fired |-> <<>>]

Commit(s, op) ==
    /\ COMPONENT_LISTING' = s.listing
    /\ nclasses' = s.nclasses
    /\ attributes' = s.attrs
    /\ nattributes' = s.nattrs
    /\ tags' = s.tags
    /\ cmdset' = s.cmdset
    /\ loaded_components' = s.cache
    /\ listeners' = s.listeners
    /\ instances' = s.inst
    /\ last' = [op |-> op, err |-> s.err]

\* a process that has imported the components package and nothing else:
\* importing component.py runs BaseComponent.__new__ on Component itself
Boot(store) ==
    BaseComponent_new(
        [listing |-> <<>>, nclasses |-> 0, attrs |-> store,
         nattrs |-> [h \in Hosts |-> <<>>],
         tags |-> [h \in Hosts |-> {}], cmdset |-> [h \in Hosts |-> {}],
         cache |-> <<>>, listeners |-> [h \in Hosts |-> {}],
         inst |-> <<>>, err |-> "ok", msg |-> {}, fired |-> <<>>],
        ComponentBase)

\* the persisted store of a host created by this version, and of one saved
\* by the version that kept its components under "component_names"
FreshStore == <<>>

LegacyStore == [component_names |-> <<"body">>]

HasHandler(h) == h \in DOMAIN loaded_components

Room(n) == Cardinality(DOMAIN instances) + n <= MaxInst

----------------------------------------------------------------------------
(* Actions of the running game. *)

\* host.signals.trigger(signal): the signal goes to the listeners that are
\* registered with the host's signal handler when it is triggered; the call
\* is recorded with what the handler has cached at that moment
trigger(s, h, signal) ==
    [s EXCEPT !.fired = Append(@, [signal |-> signal, host |-> h,
                                   listeners |-> s.listeners[h],
                                   loaded |-> s.cache[h]])]

\* ComponentHolderMixin.at_init: a fresh handler and signal handler, then
\* initialize(); the at_after_init signal follows only if it returned
at_init(s, h) ==
    LET s1 == [s EXCEPT !.cache = Put(@, h, <<>>), !.listeners[h] = {}]
        s2 == initialize(s1, h)
    IN IF Ok(s2) THEN trigger(s2, h, "at_after_init") ELSE s2

AtInit(h) ==
    /\ Room(Len(db_keys(Cur, h).attrs[h].component_keys))
    /\ Commit(at_init(Cur, h), "at_init")

\* cls(host), cls.default_create(host) or cls.load(host) called by game code
Instantiate(key, host) ==
    /\ Room(1)
    /\ key \in DOMAIN COMPONENT_LISTING
    /\ Commit(Component_init(Cur, COMPONENT_LISTING[key], host), "new")

Add(h, i) ==
    /\ HasHandler(h)
    /\ i \in DOMAIN instances
    /\ Len(db_keys(Cur, h).attrs[h].component_keys) < MaxKeys
    /\ Commit(add(Cur, h, i), "add")

AddDefault(h, key) ==
    /\ HasHandler(h)
    /\ Room(1)
    /\ Len(db_keys(Cur, h).attrs[h].component_keys) < MaxKeys
    /\ Commit(add_default(Cur, h, key), "add_default")

Remove(h, i) ==
    /\ HasHandler(h)
    /\ i \in DOMAIN instances
    /\ Commit(remove(Cur, h, i), "remove")

RemoveBySlotKey(h, slot_key) ==
    /\ HasHandler(h)
    /\ Commit(remove_by_slot_key(Cur, h, slot_key), "remove_by_slot_key")

\* component.at_added(host) called directly
AtAdded(i, host) ==
    /\ i \in DOMAIN instances
    /\ Commit(at_added(Cur, i, host), "at_added")

\* cls.load(host) called directly
Load(key, host) ==
    /\ Room(1)
    /\ key \in DOMAIN COMPONENT_LISTING
    /\ Commit(load(Cur, COMPONENT_LISTING[key], host), "load")

\* component.<field> = value on a component bound to a host
SetField(i, n, value) ==
    /\ i \in DOMAIN instances
    /\ n \in 1..Len(instances[i].cls.db_fields)
    /\ Commit(DBField_set(Cur, i, instances[i].cls.db_fields[n], value),
              "set_field")

\* component.at_removed(host) called directly
AtRemoved(i, host) ==
    /\ i \in DOMAIN instances
    /\ Commit(at_removed(Cur, i, host), "at_removed")

\* the server restarts with some version of the game code: only the
\* persisted attributes and tags of the hosts survive
ServerReload(code) ==
    LET s == ImportModule(Boot(attributes), code)
    IN Commit([s EXCEPT !.tags = tags], "reload")

Start(s) ==
    /\ COMPONENT_LISTING = s.listing
    /\ nclasses = s.nclasses
    /\ attributes = s.attrs
    /\ nattributes = s.nattrs
    /\ tags = s.tags
    /\ cmdset = s.cmdset
    /\ loaded_components = s.cache
    /\ listeners = s.listeners
    /\ instances = s.inst
    /\ last = [op |-> "start", err |-> "ok"]

GameCode == <<HealthDef, BodyDef, ArmorDef>>

(* One host through its life: the game code is imported, host A is loaded  *)
(* (at_init), components come and go, the server reloads.                  *)
Init ==
    \E store \in {FreshStore, LegacyStore} :
        Start(ImportModule(Boot([h \in Hosts |->
                  IF h = "A" THEN store ELSE FreshStore]), GameCode))

Next ==
    \/ AtInit("A")
    \/ \E key \in Names : Instantiate(key, "A")
    \/ \E i \in InstIds : Add("A", i)
    \/ \E key \in Names \cup {"gone"} : AddDefault("A", key)
    \/ \E i \in InstIds : Remove("A", i)
    \/ \E slot_key \in Names : RemoveBySlotKey("A", slot_key)
    \/ \E code \in CodeVersions : ServerReload(code)

Spec == Init /\ [][Next]_vars

(* Two hosts side by side, both loaded (at_init has run on each):          *)
(* instances are made for either host and handed to either handler.        *)
InitHosts ==
    Start(at_init(at_init(
        ImportModule(Boot([h \in Hosts |-> FreshStore]), GameCode), "A"), "B"))

NextHosts ==
    \/ \E host \in Hosts : Instantiate("health", host)
    \/ \E h \in Hosts, i \in InstIds : Add(h, i)
    \/ \E h \in Hosts, i \in InstIds : Remove(h, i)

SpecHosts == InitHosts /\ [][NextHosts]_vars

(* The binding of an instance to a host: instances are made bound to a     *)
(* host or to none, and the lifecycle hooks are called on them directly.   *)
NextBind ==
    \/ \E key \in {"health", "body"}, host \in Hosts \cup {None} :
           Instantiate(key, host)
    \/ \E i \in InstIds, host \in Hosts : AtAdded(i, host)
    \/ \E i \in InstIds, host \in Hosts : AtRemoved(i, host)

SpecBind == InitHosts /\ [][NextBind]_vars

(* Persisted field values across restarts: components are attached to    *)
(* host A, their fields are written, the handler is rebuilt (at_init) and  *)
(* the server reloads.                                                     *)
FieldValues == {50, 75}

InitFields ==
    Start(ImportModule(Boot([h \in Hosts |-> FreshStore]), GameCode))

NextFields ==
    \/ AtInit("A")
    \/ \E key \in {"health", "armor"} : AddDefault("A", key)
    \/ \E key \in {"health", "armor"} : Load(key, "A")
    \/ \E i \in InstIds, value \in FieldValues : SetField(i, 1, value)
    \/ \E code \in {GameCode} : ServerReload(code)

SpecFields == InitFields /\ [][NextFields]_vars

(* Class definition time: a process that has imported the components       *)
(* package executes class statements and looks keys up.                    *)
KeyChoices == {"", "health", "body"}

SlotChoices == {"", "health", "body"}

NameChoices == {None, "", "old"}

Define(def) ==
    /\ nclasses < MaxClasses
    /\ Commit(DefineClass(Cur, def), "class")

Resolve(component_key) ==
    Commit(get_component_class(Cur, component_key), "get_component_class")

InitReg == Start(Boot([h \in Hosts |-> FreshStore]))

NextReg ==
    \/ \E k \in KeyChoices, sl \in SlotChoices, n \in NameChoices :
           Define(ClassDef(k, sl, n, None, <<>>))
    \/ \E k \in KeyChoices \cup NameChoices : Resolve(k)

SpecReg == InitReg /\ [][NextReg]_vars

(* Tag fields: a class that declares a TagField with enforce_single and a  *)
(* default, and one without either, is attached to host A; its tag fields  *)
(* are assigned and the component is removed.                              *)
GuildDef ==
    [component_key |-> "guild", component_slot |-> "guild", name |-> None,
     cmd_set |-> None, db_fields |-> <<>>,
     tag_fields |-> <<[name |-> "rank", default |-> "novice",
                       enforce_single |-> TRUE],
                      [name |-> "titles", default |-> None,
                       enforce_single |-> FALSE]>>]

TagValues == {"novice", "adept", "master"}

\* component.<tag field> = value
SetTag(i, n, value) ==
    /\ i \in DOMAIN instances
    /\ n \in 1..Len(instances[i].cls.tag_fields)
    /\ Commit(TagField_set(Cur, i, instances[i].cls.tag_fields[n], value),
              "set_tag")

\* del component.<tag field>
DelTag(i, n) ==
    /\ i \in DOMAIN instances
    /\ n \in 1..Len(instances[i].cls.tag_fields)
    /\ Commit(TagField_delete(Cur, i, instances[i].cls.tag_fields[n]),
              "del_tag")

InitTags ==
    Start(at_init(ImportModule(Boot([h \in Hosts |-> FreshStore]),
                               <<GuildDef, BodyDef>>), "A"))

NextTags ==
    \/ \E key \in {"guild", "body"} : AddDefault("A", key)
    \/ \E i \in InstIds : Remove("A", i)
    \/ \E i \in InstIds, n \in 1..2, value \in TagValues : SetTag(i, n, value)
    \/ \E i \in InstIds, n \in 1..2 : DelTag(i, n)

SpecTags == InitTags /\ [][NextTags]_vars

(* Field descriptors: class statements that declare DBFields, a KeyField  *)
(* and HostFields are executed, instances are made for host A, attached,   *)
(* and their fields assigned.                                              *)

\* the mapping handed to the KeyField
Armory == [k \in {"sword1", "bow1"} |-> PyObj(k, k)]

\* a class whose body also declares slot, the attribute HostField and
\* KeyField read
InventoryDef ==
    [component_key |-> "inv", component_slot |-> "inv", name |-> None,
     slot |-> "inv", cmd_set |-> None,
     db_fields |->
        <<[kind |-> "DBField", name |-> "weapon_key", default |-> PyNone,
           autocreate |-> FALSE],
          [kind |-> "KeyField", name |-> "weapon", default |-> PyNone,
           autocreate |-> FALSE, listing |-> Armory],
          [kind |-> "HostField", name |-> "might", default |-> PyInt("1"),
           autocreate |-> FALSE, overridable |-> FALSE,
           host_attribute |-> "strength"],
          [kind |-> "HostField", name |-> "luck", default |-> PyInt("3"),
           autocreate |-> FALSE, overridable |-> TRUE,
           host_attribute |-> None],
          [kind |-> "DBField", name |-> "capacity", default |-> PyInt("10"),
           autocreate |-> TRUE]>>,
     ndb_fields |->
        <<[kind |-> "NDBField", name |-> "cursor", default |-> PyInt("0"),
           autocreate |-> TRUE]>>]

\* a class that declares component_key and component_slot only
QuiverDef ==
    [component_key |-> "quiver", component_slot |-> "quiver", name |-> None,
     cmd_set |-> None,
     db_fields |->
        <<[kind |-> "KeyField", name |-> "arrow", default |-> PyNone,
           autocreate |-> FALSE, listing |-> Armory]>>]

DescriptorDefs == {InventoryDef, QuiverDef}

\* the values assigned: strings, an integer, an object with a key in the
\* mapping, an object without key attribute, one with an empty key, None
FieldInputs ==
    {PyStr("sword1"), PyStr("axe9"), PyInt("7"), PyObj("a sword", "sword1"),
     PyObj("a ghost", None), PyObj("a wisp", ""), PyNone}

\* the values game code assigns in a run
AssignInputs == {PyStr("sword1"), PyObj("a ghost", None), PyNone}

\* the fields game code assigns: all but the auto-created ones
Assignable == 1..4

\* component.<field> = value
AssignField(i, n, value) ==
    /\ i \in DOMAIN instances
    /\ n \in 1..Len(instances[i].cls.db_fields)
    /\ Commit(Field_set(Cur, i, instances[i].cls.db_fields[n], value),
              Kind(instances[i].cls.db_fields[n]) \o ".__set__")

InitDescriptors == Start(at_init(Boot([h \in Hosts |-> FreshStore]), "A"))

NextDescriptors ==
    \/ \E def \in DescriptorDefs : Define(def)
    \/ \E key \in {"inv"} : Instantiate(key, "A")
    \/ \E i \in InstIds : Add("A", i)
    \/ \E i \in InstIds, n \in Assignable, value \in AssignInputs :
           AssignField(i, n, value)

SpecDescriptors == InitDescriptors /\ [][NextDescriptors]_vars

----------------------------------------------------------------------------
(* Typeclasses (holder.py): a typeclass declares its components with      *)
(* attr = ComponentProperty(key, **values) in its class body; a host is    *)
(* created (basetype_setup) as an instance of one typeclass.               *)

\* ComponentProperty.__init__(component_key, **kwargs)
ComponentProperty(component_key, values) ==
    [component_key |-> component_key, values |-> values]

\* getattr(owner, "_class_components", default): the attribute of the first
\* class of the method resolution order whose own __dict__ holds it
RECURSIVE getattr_class_components(_, _, _)
getattr_class_components(dicts, mro, default) ==
    IF mro = <<>> THEN default
    ELSE IF Head(mro) \in DOMAIN dicts THEN dicts[Head(mro)]
    ELSE getattr_class_components(dicts, Tail(mro), default)

\* ComponentProperty.__set_name__(owner, name); dicts maps a class to the
\* _class_components of its own __dict__
ComponentProperty_set_name(dicts, owner, prop) ==
    LET own == Get(dicts, owner.name, <<>>)
        class_components ==
            IF own = <<>>
            THEN getattr_class_components(dicts, owner.mro, <<>>)
            ELSE own
    IN Put(dicts, owner.name, Append(class_components, prop))

\* the class statement of a typeclass: __set_name__ of each declaration, in
\* the order of the class body
RECURSIVE TypeclassStatement(_, _, _)
TypeclassStatement(dicts, owner, props) ==
    IF props = <<>> THEN dicts
    ELSE TypeclassStatement(ComponentProperty_set_name(dicts, owner, Head(props)),
                            owner, Tail(props))

RECURSIVE ImportTypeclasses(_, _)
ImportTypeclasses(dicts, defs) ==
    IF defs = <<>> THEN dicts
    ELSE ImportTypeclasses(
             TypeclassStatement(dicts, Head(defs), Head(defs).props),
             Tail(defs))

\* the typeclasses of the game, in definition order, each with its method
\* resolution order: Character declares health; Armored is a mixin that
\* declares armor; Knight(Character) adds body; Veteran(Character) declares
\* health again with current=50; Hero(Character, Armored) declares nothing
TypeclassCode ==
    << [name |-> "Character", mro |-> <<"Character">>,
        props |-> <<ComponentProperty("health", <<>>)>>],
       [name |-> "Armored", mro |-> <<"Armored">>,
        props |-> <<ComponentProperty("armor", <<>>)>>],
       [name |-> "Knight", mro |-> <<"Knight", "Character">>,
        props |-> <<ComponentProperty("body", <<>>)>>],
       [name |-> "Veteran", mro |-> <<"Veteran", "Character">>,
        props |-> <<ComponentProperty("health",
                        <<[name |-> "current", value |-> 50]>>)>>],
       [name |-> "Hero", mro |-> <<"Hero", "Character", "Armored">>,
        props |-> <<>>] >>

TypeclassNames == {TypeclassCode[n].name : n \in 1..Len(TypeclassCode)}

Typeclass(name) ==
    TypeclassCode[CHOOSE n \in 1..Len(TypeclassCode) :
                      TypeclassCode[n].name = name]

\* the _class_components each typeclass has in its __dict__ once the game
\* code is imported
class_dicts == ImportTypeclasses(<<>>, TypeclassCode)

\* setattr(new, key, value) for each override: an assignment through the
\* field descriptor when the class declares one under that name, a plain
\* instance attribute otherwise
RECURSIVE SetAttrs(_, _, _)
SetAttrs(s, i, values) ==
    IF values = <<>> \/ ~Ok(s) THEN s
    ELSE LET kv == Head(values)
             fields == s.inst[i].cls.db_fields
             ns == {n \in 1..Len(fields) : fields[n].name = kv.name}
             s1 == IF ns = {} THEN s
                   ELSE Field_set(s, i, fields[CHOOSE n \in ns : TRUE], kv.value)
         IN SetAttrs(s1, i, Tail(values))

\* Component.create(host, **kwargs)
create(s, cls, host, values) ==
    LET i == FreshId(s)
        s1 == default_create(s, cls, host)
    IN IF Ok(s1) THEN SetAttrs(s1, i, values) ELSE s1

RECURSIVE SetupLoop(_, _, _)
SetupLoop(s, h, class_components) ==
    IF class_components = <<>> \/ ~Ok(s) THEN s
    ELSE LET prop == Head(class_components)
             s1 == get_component_class(s, prop.component_key)
         IN IF ~Ok(s1) THEN s1
            ELSE LET i == FreshId(s)
                     s2 == create(s1, s.listing[prop.component_key], h,
                                  prop.values)
                 IN IF ~Ok(s2) THEN s2
                    ELSE SetupLoop(add(s2, h, i), h, Tail(class_components))

\* ComponentHolderMixin.basetype_setup on a host of the given typeclass
basetype_setup(s, h, typeclass) ==
    LET s1 == [s EXCEPT !.cache = Put(@, h, <<>>), !.listeners[h] = {}]
        s2 == SetupLoop(s1, h,
                        getattr_class_components(class_dicts,
                                                 Typeclass(typeclass).mro, <<>>))
    IN IF Ok(s2) THEN trigger(s2, h, "at_basetype_setup") ELSE s2

\* the host object is created: basetype_setup runs once, before anything
\* else is done with the host
BasetypeSetup(h, typeclass) ==
    /\ ~HasHandler(h)
    /\ Room(Len(getattr_class_components(class_dicts,
                                         Typeclass(typeclass).mro, <<>>)))
    /\ Commit(basetype_setup(Cur, h, typeclass), "basetype_setup")

(* Hosts of the game's typeclasses are created, and their components are   *)
(* written to and removed.                                                 *)
InitSetup ==
    Start(ImportModule(Boot([h \in Hosts |-> FreshStore]), GameCode))

NextSetup ==
    \/ \E h \in Hosts, typeclass \in TypeclassNames : BasetypeSetup(h, typeclass)
    \/ \E h \in Hosts, i \in InstIds : Remove(h, i)
    \/ \E i \in InstIds, value \in FieldValues : SetField(i, 1, value)

SpecSetup == InitSetup /\ [][NextSetup]_vars

(* Discarding a component: Health and Inventory components are attached  *)
(* to host A, their persisted and in-memory fields are written, and        *)
(* cleanup() is called on them.                                            *)
\* the Inventory fields that are assigned: weapon, luck and capacity
CleanupFields == {2, 4, 5}

\* component.<in-memory field> = value
AssignNField(i, n, value) ==
    /\ i \in DOMAIN instances
    /\ n \in 1..Len(instances[i].cls.ndb_fields)
    /\ Commit(NDBField_set(Cur, i, instances[i].cls.ndb_fields[n], value),
              "NDBField.__set__")

Cleanup(i) ==
    /\ i \in DOMAIN instances
    /\ Commit(cleanup(Cur, i), "cleanup")

InitCleanup ==
    Start(at_init(ImportModule(Boot([h \in Hosts |-> FreshStore]),
                               <<HealthDef, InventoryDef>>), "A"))

NextCleanup ==
    \/ \E key \in {"health", "inv"} : AddDefault("A", key)
    \/ \E i \in InstIds, value \in FieldValues : SetField(i, 1, value)
    \/ \E i \in InstIds, n \in CleanupFields, value \in AssignInputs :
           AssignField(i, n, value)
    \/ \E i \in InstIds, value \in AssignInputs : AssignNField(i, 1, value)
    \/ \E i \in InstIds : Cleanup(i)

SpecCleanup == InitCleanup /\ [][NextCleanup]_vars

(* A host whose components are only ever added and removed with success:  *)
(* instances are made for host A and handed to its handler, and a call     *)
(* that would raise is not made.                                           *)
SuccessfulAdd(h, i) ==
    /\ HasHandler(h)
    /\ i \in DOMAIN instances
    /\ Ok(add(Cur, h, i))
    /\ Add(h, i)

SuccessfulRemove(h, i) ==
    /\ HasHandler(h)
    /\ i \in DOMAIN instances
    /\ Ok(remove(Cur, h, i))
    /\ Remove(h, i)

InitSync ==
    Start(at_init(ImportModule(Boot([h \in Hosts |-> FreshStore]), GameCode),
                  "A"))

NextSync ==
    \/ \E key \in Names : Instantiate(key, "A")
    \/ \E i \in InstIds : SuccessfulAdd("A", i)
    \/ \E i \in InstIds : SuccessfulRemove("A", i)

SpecSync == InitSync /\ [][NextSync]_vars

(* Field values of a component that is taken off its host and put back:   *)
(* components are attached to host A, their fields written, and they are   *)
(* removed, cleaned up and attached again.                                 *)
NextRetain ==
    \/ \E key \in Names : AddDefault("A", key)
    \/ \E i \in InstIds : Remove("A", i)
    \/ \E i \in InstIds, value \in FieldValues : SetField(i, 1, value)
    \/ \E i \in InstIds : Cleanup(i)

SpecRetain == InitSync /\ [][NextRetain]_vars

----------------------------------------------------------------------------
(* The claims.  A claim about what a call does is stated over every        *)
(* reachable state and every argument: the operator that models the call   *)
(* is applied to the state (Cur) and its result examined.                  *)

\* r is s but for the exception raised
SameState(r, s) == [r EXCEPT !.err = "ok", !.msg = {}, !.fired = <<>>] = s

InCache(h, i) ==
    /\ HasHandler(h)
    /\ \E k \in DOMAIN loaded_components[h] : loaded_components[h][k] = i

\* C1: for every component class with key K and slot S (K different from S
\* included), after handler.add(instance) get_by_key(K) and get_by_slot(S)
\* both return the instance, and after a following handler.remove(instance)
\* both return absent and has_slot(S) is false.
C1_AddRemoveRoundTrip ==
    \A i \in DOMAIN instances :
        LET K == get_component_key(instances[i].cls)
            S == get_component_slot(instances[i].cls)
            a == add(Cur, "A", i)
            r == remove(a, "A", i)
        IN (HasHandler("A") /\ Ok(a)) =>
               /\ get_by_key(a, "A", K) = i
               /\ get_by_slot(a, "A", S) = i
               /\ get_by_key(r, "A", K) = NoInstance
               /\ get_by_slot(r, "A", S) = NoInstance
               /\ ~has_slot(r, "A", S)

\* the persisted values of a store: everything but the component lists
FieldsOnly(store) ==
    [k \in (DOMAIN store) \ {"component_keys", "component_names"} |-> store[k]]

C2_Reloaded ==
    (last.op = "at_init" /\ last.err = "ok") =>
        \A n \in 1..Len(attributes["A"].component_keys) :
            LET cls == COMPONENT_LISTING[attributes["A"].component_keys[n]]
                j == get_by_slot(Cur, "A", get_component_slot(cls))
            IN /\ j # NoInstance
               /\ instances[j].host = "A"
               /\ instances[j].cls = cls
               /\ \A f \in 1..Len(cls.db_fields) :
                      LET key == DBField_key(cls, cls.db_fields[f]) IN
                      key \in DOMAIN attributes["A"] =>
                          DBField_value(Cur, j, cls.db_fields[f]) =
                              attributes["A"][key]

C2_LoadKeepsValues ==
    last'.op \in {"load", "at_init", "reload"} =>
        \A h \in Hosts : FieldsOnly(attributes'[h]) = FieldsOnly(attributes[h])

\* C2: once a component's DBField was set to v, a restart (a fresh handler
\* on the host followed by initialize()) yields a component in the same slot,
\* bound to the host, whose field reads v and not the default; load() and
\* initialize() never write a field, so every persisted field value stays
\* what it was however often the component is loaded.
C2_PersistedFieldsSurviveReload ==
    [](C2_Reloaded) /\ [][C2_LoadKeepsValues]_vars

\* after a restart a reloaded component reads a value that is not its
\* field's default
C2_Witness ==
    /\ last.op = "at_init" /\ last.err = "ok"
    /\ \E k \in DOMAIN loaded_components["A"] :
           LET j == loaded_components["A"][k] IN
           /\ instances[j].host = "A"
           /\ \E f \in 1..Len(instances[j].cls.db_fields) :
                  DBField_value(Cur, j, instances[j].cls.db_fields[f]) #
                      instances[j].cls.db_fields[f].default

\* C3: whenever initialize() returns without raising, every entry of the
\* host's persisted key list has a live instance of its class in the cache,
\* reachable by get_by_key of its key and by get_by_slot of its slot, and
\* bound to this host.
C3_InitializeCachesEveryKey ==
    (last.op = "at_init" /\ last.err = "ok") =>
        \A n \in 1..Len(attributes["A"].component_keys) :
            LET key == attributes["A"].component_keys[n] IN
            /\ key \in DOMAIN COMPONENT_LISTING
            /\ LET cls == COMPONENT_LISTING[key]
                   j == get_by_key(Cur, "A", get_component_key(cls))
               IN /\ j # NoInstance
                  /\ get_by_slot(Cur, "A", get_component_slot(cls)) = j
                  /\ instances[j].cls = cls
                  /\ instances[j].host = "A"

\* the persisted key list of host h as initialize() reads it
PersistedKeys(h) == db_keys(Cur, h).attrs[h].component_keys

\* C4: initialize() on a host whose persisted key list holds a key the
\* Registry cannot resolve raises ComponentDoesNotExist, and the error
\* carries the host's name and the missing key.
C4_InitializeNamesHostAndKey ==
    LET missing == {n \in 1..Len(PersistedKeys("A")) :
                        PersistedKeys("A")[n] \notin DOMAIN COMPONENT_LISTING}
        r == at_init(Cur, "A")
    IN (Room(Len(PersistedKeys("A"))) /\ missing # {}) =>
           /\ r.err = "ComponentDoesNotExist"
           /\ \E n \in missing : PersistedKeys("A")[n] \in r.msg
           /\ "A" \in r.msg

\* C5: remove_by_slot_key(S) and remove(instance) on a host where slot S is
\* not cached raise ComponentIsNotRegistered and change nothing: not the
\* cache, the persisted key list, the host's tags or the instance's binding.
C5_RemoveUnattachedRaises ==
    HasHandler("A") =>
        /\ \A S \in Names \cup {"gone"} :
               ~has_slot(Cur, "A", S) =>
                   LET r == remove_by_slot_key(Cur, "A", S) IN
                   r.err = "ComponentIsNotRegistered" /\ SameState(r, Cur)
        /\ \A i \in DOMAIN instances :
               ~has_slot(Cur, "A", get_component_slot(instances[i].cls)) =>
                   LET r == remove(Cur, "A", i) IN
                   r.err = "ComponentIsNotRegistered" /\ SameState(r, Cur)

\* remove(instance) was refused for an instance bound to the host
C5_Witness ==
    /\ last.op = "remove" /\ last.err = "ComponentIsNotRegistered"
    /\ \E i \in DOMAIN instances :
           /\ instances[i].host = "A"
           /\ ~has_slot(Cur, "A", get_component_slot(instances[i].cls))

\* C6: at_added(B) on an instance bound to a different host A raises
\* ComponentRegisterError; the instance stays bound to A and no command set
\* is added to A or to B.
C6_AtAddedOtherHostRaises ==
    \A i \in DOMAIN instances : \A B \in Hosts :
        (instances[i].host # None /\ instances[i].host # B) =>
            LET r == at_added(Cur, i, B) IN
            /\ r.err = "ComponentRegisterError"
            /\ r.inst[i].host = instances[i].host
            /\ r.cmdset = cmdset

\* at_added was refused while an instance whose class has a command set is
\* bound to a host
C6_Witness ==
    /\ last.op = "at_added" /\ last.err = "ComponentRegisterError"
    /\ \E i \in DOMAIN instances :
           instances[i].host # None /\ ~Falsy(instances[i].cls.cmd_set)

\* C7: components are never shared between hosts: after any sequence of add
\* and remove calls on the handlers of hosts A and B, failed calls included,
\* no instance is in the cache of A's handler and in the cache of B's.  (The
\* claim's second half, on the persisted key lists, is not needed to refute
\* it.)
C7_NeverShared ==
    \A i \in InstIds : ~(InCache("A", i) /\ InCache("B", i))

\* the class statements a process may execute
ClassDefs ==
    {ClassDef(k, sl, n, None, <<>>) :
        k \in KeyChoices, sl \in SlotChoices, n \in NameChoices}

\* C8: after a class with key K is registered, get_component_class(K)
\* returns it, also when another class was registered under K before (the
\* last one wins) and without touching what other keys resolve to; a key no
\* class was registered under raises ComponentDoesNotExist.
C8_ResolveReturnsLastRegistered ==
    /\ \A def \in ClassDefs :
           LET cls == NewClass(nclasses + 1, def)
               K == get_component_key(cls)
               r == DefineClass(Cur, def)
           IN (Ok(r) /\ K # "") =>
                  /\ Ok(get_component_class(r, K))
                  /\ r.listing[K] = cls
                  /\ \A k \in (KeyChoices \cup NameChoices) \ {K} :
                         /\ (k \in DOMAIN r.listing) = (k \in DOMAIN COMPONENT_LISTING)
                         /\ k \in DOMAIN r.listing =>
                                r.listing[k] = COMPONENT_LISTING[k]
    /\ nclasses = 0 => DOMAIN COMPONENT_LISTING = {None}
    /\ \A k \in KeyChoices \cup NameChoices :
           k \notin DOMAIN COMPONENT_LISTING =>
               get_component_class(Cur, k).err = "ComponentDoesNotExist"

\* a lookup succeeded for a key the second class statement registered
C8_Witness ==
    /\ last.op = "get_component_class" /\ last.err = "ok"
    /\ \E k \in DOMAIN COMPONENT_LISTING :
           k # None /\ COMPONENT_LISTING[k].serial = 2

\* C9: every class the game code registers is in the Registry under a
\* non-empty key: a class statement publishes the class under its non-empty
\* component_key or legacy name, or fails; a class with no key, no slot and
\* no name is never published.  (Stated for the classes defined after the
\* library's own Component, which is itself published under None.)
C9_RegisteredKeysNonEmpty ==
    \A k \in DOMAIN COMPONENT_LISTING :
        COMPONENT_LISTING[k].serial > 0 => ~Falsy(k)

KeyOnlyDefs == {def \in ClassDefs :
                   ~Falsy(def.component_key) /\ Falsy(def.component_slot)}

\* C10 as the spec states it: a class that declares only component_key is
\* registered and its slot equals its component_key.
C10_KeyOnlyDefaultsSlot ==
    \A def \in KeyOnlyDefs :
        /\ Ok(DefineClass(Cur, def))
        /\ get_component_slot(NewClass(nclasses + 1, def)) = def.component_key

\* C10, amended: a class that declares only component_key (no
\* component_slot) is rejected at registration with ValueError ("A
\* component_slot is required"), the Registry is left as it was, and
\* get_component_slot on such a class gives its legacy name (empty when it
\* has none), whatever component_key is.
C10_KeyOnlyIsRejected ==
    \A def \in KeyOnlyDefs :
        LET r == DefineClass(Cur, def) IN
        /\ r.err = "ValueError: A component_slot is required"
        /\ r.listing = COMPONENT_LISTING
        /\ get_component_slot(NewClass(nclasses + 1, def)) =
               (IF def.name = None THEN "" ELSE def.name)

\* a class statement was refused for want of a slot
C10_Witness ==
    last.op = "class" /\ last.err = "ValueError: A component_slot is required"

\* C11: at most one component instance per slot per host: in every reachable
\* state of a handler, the cached instances whose class has slot S, found
\* under a key entry or under a slot entry, are one and the same instance,
\* also after a second class that declares slot S under another key is
\* added.
C11_OneInstancePerSlot ==
    HasHandler("A") =>
        \A k1, k2 \in DOMAIN loaded_components["A"] :
            LET i1 == loaded_components["A"][k1]
                i2 == loaded_components["A"][k2]
            IN get_component_slot(instances[i1].cls) =
                   get_component_slot(instances[i2].cls) => i1 = i2

\* C17: add(instance) appends exactly one entry to the host's persisted key
\* list and remove(instance) removes exactly that entry: for every component
\* (key different from slot included) add followed by remove completes
\* without error and leaves the persisted key list equal to what it was
\* before the add.
C17_AddRemoveRestoresKeys ==
    \A i \in DOMAIN instances :
        LET a == add(Cur, "A", i)
            r == remove(a, "A", i)
        IN (HasHandler("A") /\ Ok(a)) =>
               /\ Len(a.attrs["A"].component_keys) = Len(PersistedKeys("A")) + 1
               /\ Ok(r)
               /\ r.attrs["A"].component_keys = PersistedKeys("A")

\* the tags of category "components" on host h in state s
ComponentTags(s, h) == {tg \in s.tags[h] : tg[2] = "components"}

\* C18: the component-category tag that add() puts on the host is the tag
\* that remove() strips: for every component (key different from slot
\* included) the host carries the component's tag in category "components"
\* while it is attached, and after a successful remove none of the tags that
\* add() put there for it is left.
C18_RemoveStripsTheTagAddPut ==
    \A i \in DOMAIN instances :
        LET a == add(Cur, "A", i)
            r == remove(a, "A", i)
            put == ComponentTags(a, "A") \ ComponentTags(Cur, "A")
        IN (HasHandler("A") /\ Ok(a)) =>
               /\ \E tg \in ComponentTags(a, "A") :
                      tg[1] \in {get_component_key(instances[i].cls),
                                 get_component_slot(instances[i].cls)}
               /\ Ok(r) => put \cap ComponentTags(r, "A") = {}

\* the tags of host h in state s whose category is, or is not, in cats
TagsIn(s, h, cats) == {tg \in s.tags[h] : tg[2] \in cats}

TagsOutside(s, h, cats) == {tg \in s.tags[h] : tg[2] \notin cats}

\* C13: for a TagField with enforce_single, setting value A and then value B
\* leaves exactly one tag, B, in the field's category on the host; without
\* enforce_single both A and B are in the category afterwards; either way
\* the host's tags of other categories, and other hosts' tags, are
\* unchanged.
C13_TagFieldSetTwice ==
    \A i \in DOMAIN instances :
        \A n \in 1..Len(instances[i].cls.tag_fields) :
            \A A, B \in TagValues :
                LET h == instances[i].host
                    field == instances[i].cls.tag_fields[n]
                    cat == TagCategory(instances[i].cls, field)
                    s1 == TagField_set(Cur, i, field, A)
                    s2 == TagField_set(s1, i, field, B)
                IN h # None =>
                       /\ Ok(s2)
                       /\ field.enforce_single =>
                              TagsIn(s2, h, {cat}) = {<<B, cat>>}
                       /\ ~field.enforce_single =>
                              TagsIn(s2, h, {cat}) =
                                  TagsIn(Cur, h, {cat}) \cup
                                      {<<A, cat>>, <<B, cat>>}
                       /\ TagsOutside(s2, h, {cat}) = TagsOutside(Cur, h, {cat})
                       /\ \A g \in Hosts \ {h} : s2.tags[g] = tags[g]

\* a tag field was assigned while its category held another value, the
\* enforce_single category holds one tag and the other category two
C13_Witness ==
    /\ last.op = "set_tag" /\ last.err = "ok"
    /\ Cardinality(TagsIn(Cur, "A", {"guild::rank"})) = 1
    /\ <<"novice", "guild::rank">> \notin tags["A"]
    /\ Cardinality(TagsIn(Cur, "A", {"guild::titles"})) = 2

\* the categories of the tag fields of class cls
TagCategories(cls) ==
    {TagCategory(cls, cls.tag_fields[n]) : n \in 1..Len(cls.tag_fields)}

\* C19: for a component declaring TagFields, add() applies each TagField's
\* default (if it has one) as a tag in the field's category, and remove() of
\* the attached component succeeds and leaves no tag in any of the
\* component's TagField categories on the host.
C19_TagFieldsAppliedAndCleared ==
    \A i \in DOMAIN instances :
        LET cls == instances[i].cls
            a == add(Cur, "A", i)
            r == remove(a, "A", i)
        IN (HasHandler("A") /\ cls.tag_fields # <<>> /\ Ok(a)) =>
               /\ \A n \in 1..Len(cls.tag_fields) :
                      ~Falsy(cls.tag_fields[n].default) =>
                          <<cls.tag_fields[n].default,
                            TagCategory(cls, cls.tag_fields[n])>> \in a.tags["A"]
               /\ Ok(r)
               /\ TagsIn(r, "A", TagCategories(cls)) = {}

\* the entries of kind k in the field table of instance i's class
FieldsOfKind(i, k) ==
    {n \in 1..Len(instances[i].cls.db_fields) :
        Kind(instances[i].cls.db_fields[n]) = k}

\* C12: field storage keys are unique within the fields sharing one slot:
\* two fields of different names declared on a component have different
\* storage keys, so that writing one of them never changes the value read
\* from the other.
C12_StorageKeysUnique ==
    \A i \in DOMAIN instances :
        LET cls == instances[i].cls IN
        instances[i].host # None =>
            \A n, m \in 1..Len(cls.db_fields) :
                cls.db_fields[n].name # cls.db_fields[m].name =>
                    /\ StorageKey(cls, cls.db_fields[n]) #
                           StorageKey(cls, cls.db_fields[m])
                    /\ \A value \in FieldInputs :
                           LET r == Field_set(Cur, i, cls.db_fields[n], value)
                           IN Field_get(r, i, cls.db_fields[m]) =
                                  Field_get(Cur, i, cls.db_fields[m])

\* C14: for a KeyField with mapping M, assigning an object whose key
\* attribute is k stores the identifier k and a read then gives M[k], or
\* absent when M has no entry for k; assigning a string or an integer stores
\* that value; assigning a value that is neither and has no (non-empty) key
\* raises ValueError and changes nothing.
C14_KeyFieldStoresIdentifier ==
    \A i \in DOMAIN instances :
        \A n \in FieldsOfKind(i, "KeyField") : \A value \in FieldInputs :
            LET h == instances[i].host
                field == instances[i].cls.db_fields[n]
                key == KeyField_key(instances[i].cls, field)
                r == KeyField_set(Cur, i, field, value)
            IN h # None =>
                   IF value.type \in {"str", "int"}
                   THEN /\ Ok(r)
                        /\ r.attrs[h][key] = value
                   ELSE IF ~Falsy(value.key)
                   THEN /\ Ok(r)
                        /\ r.attrs[h][key] = PyStr(value.key)
                        /\ KeyField_get(r, i, field) =
                               (IF value.key \in DOMAIN field.listing
                                THEN field.listing[value.key] ELSE PyNone)
                   ELSE /\ r.err = "ValueError: Only str, int, or instances with keys are supported"
                        /\ SameState(r, Cur)

\* a KeyField was assigned and reads as an object of its mapping
C14_Witness ==
    /\ last.op = "KeyField.__set__" /\ last.err = "ok"
    /\ \E i \in DOMAIN instances : \E n \in FieldsOfKind(i, "KeyField") :
           /\ instances[i].host # None
           /\ KeyField_get(Cur, i, instances[i].cls.db_fields[n]) # PyNone

\* C15: a write to a HostField that is not overridable fails and leaves the
\* host's persisted store unchanged, and a read of it gives the host's named
\* attribute, or the fallback default when the host has none.  A read of an
\* overridable HostField gives the override written through the component
\* when there is one (not None) and otherwise the host's attribute or the
\* fallback.
C15_HostFieldReadsHost ==
    \A i \in DOMAIN instances :
        \A n \in FieldsOfKind(i, "HostField") : \A value \in FieldInputs :
            LET h == instances[i].host
                field == instances[i].cls.db_fields[n]
                attr == HostField_attribute(instances[i].cls, field)
                fromhost == IF attr \in DOMAIN HostAttributes[h]
                            THEN HostAttributes[h][attr] ELSE field.default
                r == HostField_set(Cur, i, field, value)
            IN h # None =>
                   IF ~field.overridable
                   THEN /\ r.err = "AssertionError: Cannot set a non-overridable host field"
                        /\ SameState(r, Cur)
                        /\ HostField_get(Cur, i, field) = fromhost
                   ELSE /\ Ok(r)
                        /\ HostField_get(r, i, field) =
                               (IF value # PyNone THEN value ELSE fromhost)

\* a write to a non-overridable HostField was refused while an overridable
\* one holds an override
C15_Witness ==
    /\ last.op = "HostField.__set__"
    /\ last.err = "AssertionError: Cannot set a non-overridable host field"
    /\ \E i \in DOMAIN instances : \E n \in FieldsOfKind(i, "HostField") :
           LET field == instances[i].cls.db_fields[n] IN
           /\ instances[i].host # None
           /\ field.overridable
           /\ HostField_get(Cur, i, field) \notin {PyNone, field.default}

\* C20: the handler invokes the fields' lifecycle callbacks: when a
\* component with a DBField (or NDBField) declared with auto-create is
\* attached through handler.add(), the field's default is in the host's
\* persisted (or in-memory) store under the field's key as soon as add()
\* has returned; a field without auto-create is not stored by add().
C20_AutocreateOnAdd ==
    \A i \in DOMAIN instances :
        LET cls == instances[i].cls
            a == add(Cur, "A", i)
        IN (HasHandler("A") /\ Ok(a)) =>
               /\ \A n \in 1..Len(cls.db_fields) :
                      LET key == StorageKey(cls, cls.db_fields[n]) IN
                      IF cls.db_fields[n].autocreate
                      THEN /\ key \in DOMAIN a.attrs["A"]
                           /\ a.attrs["A"][key] = cls.db_fields[n].default
                      ELSE (key \in DOMAIN a.attrs["A"]) =
                               (key \in DOMAIN attributes["A"])
               /\ \A n \in 1..Len(cls.ndb_fields) :
                      LET key == DBField_key(cls, cls.ndb_fields[n]) IN
                      cls.ndb_fields[n].autocreate =>
                          /\ key \in DOMAIN a.nattrs["A"]
                          /\ a.nattrs["A"][key] = cls.ndb_fields[n].default

\* the position of the first occurrence of x in the list l (0 when absent)
IndexOf(l, x) ==
    IF InList(l, x) THEN CHOOSE n \in 1..Len(l) :
                             l[n] = x /\ \A m \in 1..(n - 1) : l[m] # x
    ELSE 0

\* the declarations a host of the typeclass is created with: those of the
\* class and of every ancestor, as <<class, position in the class body>>
Declarations(typeclass) ==
    {<<c, n>> : c \in {Typeclass(typeclass).mro[m] :
                          m \in 1..Len(Typeclass(typeclass).mro)},
                n \in 1..2} \cap
    {d \in TypeclassNames \X (1..2) : d[2] <= Len(Typeclass(d[1]).props)}

\* C16: after basetype_setup on a new host, every component declared with
\* ComponentProperty on the host's class or on an ancestor is attached:
\* get_by_key returns an instance of the registered class bound to the
\* host, its key is in the persisted key list exactly once, the declared
\* overrides are what its fields read, inherited declarations come before
\* the subclass's and each class's in declaration order; and no key is in
\* the list that neither the class nor an ancestor declares.
C16_SetupAttachesDeclared ==
    \A h \in Hosts, typeclass \in TypeclassNames :
        LET r == basetype_setup(Cur, h, typeclass)
            keys == Get(r.attrs[h], "component_keys", <<>>)
            decl(d) == Typeclass(d[1]).props[d[2]]
        IN (/\ ~HasHandler(h)
            /\ Room(Len(getattr_class_components(
                            class_dicts, Typeclass(typeclass).mro, <<>>)))
            /\ Ok(r)) =>
               /\ \A d \in Declarations(typeclass) :
                      LET key == decl(d).component_key
                          i == get_by_key(r, h, key)
                      IN /\ i # NoInstance
                         /\ r.inst[i].host = h
                         /\ r.inst[i].cls = r.listing[key]
                         /\ Cardinality({n \in 1..Len(keys) : keys[n] = key}) = 1
                         /\ \A m \in 1..Len(decl(d).values) :
                                \A f \in 1..Len(r.inst[i].cls.db_fields) :
                                    r.inst[i].cls.db_fields[f].name =
                                        decl(d).values[m].name =>
                                    Field_get(r, i, r.inst[i].cls.db_fields[f])
                                        = decl(d).values[m].value
               /\ \A d1, d2 \in Declarations(typeclass) :
                      (/\ decl(d1).component_key # decl(d2).component_key
                       /\ \/ d1[1] = d2[1] /\ d1[2] < d2[2]
                          \/ d1[1] # d2[1] /\
                             InList(Typeclass(d2[1]).mro, d1[1])) =>
                          IndexOf(keys, decl(d1).component_key) <
                              IndexOf(keys, decl(d2).component_key)
               /\ \A n \in 1..Len(keys) :
                      \E d \in Declarations(typeclass) :
                          decl(d).component_key = keys[n]

\* how many entries of the list l are x
Count(l, x) == Cardinality({n \in 1..Len(l) : l[n] = x})

Cached(s, h) == {s.cache[h][k] : k \in DOMAIN s.cache[h]}

\* at_init builds a new handler: nothing it caches, and no listener of the
\* new signal handler, is an instance that existed before the call
FreshHandler(r, h) ==
    /\ Cached(r, h) \cap DOMAIN instances = {}
    /\ r.listeners[h] \cap DOMAIN instances = {}

\* every entry of the persisted key list has an instance of its class,
\* bound to the host, in the cache under its key
Rehydrated(r, h) ==
    \A n \in 1..Len(r.attrs[h].component_keys) :
        LET key == r.attrs[h].component_keys[n]
            i == get_by_key(r, h, key)
        IN /\ i # NoInstance
           /\ r.inst[i].cls = r.listing[key]
           /\ r.inst[i].host = h

\* the call fired the signal once, as its last step: what was cached and
\* who listened when it fired is what the call returned with, one listener
\* for every persisted key
FiredAfterInit(r, h) ==
    /\ Len(r.fired) = 1
    /\ r.fired[1].signal = "at_after_init" /\ r.fired[1].host = h
    /\ r.fired[1].loaded = r.cache[h]
    /\ r.fired[1].listeners = r.listeners[h]
    /\ Cardinality(r.listeners[h]) = Len(r.attrs[h].component_keys)
    /\ \A n \in 1..Len(r.attrs[h].component_keys) :
           \E i \in r.listeners[h] :
               /\ r.inst[i].cls = r.listing[r.attrs[h].component_keys[n]]
               /\ r.inst[i].host = h

\* C22: on every at_init of a host a fresh handler replaces the previous
\* one (no instance the old handler cached is reused), initialize()
\* rehydrates every persisted component, and the "at_after_init" signal is
\* fired only after all persisted components are cached and registered as
\* listeners; when initialize() raises, the signal is not fired.
C22_AtInitRehydratesThenSignals ==
    Room(Len(PersistedKeys("A"))) =>
        LET r == at_init(Cur, "A") IN
        IF Ok(r)
        THEN /\ FreshHandler(r, "A")
             /\ Rehydrated(r, "A")
             /\ FiredAfterInit(r, "A")
        ELSE r.fired = <<>>

\* the storage keys of the persisted fields, and of the in-memory fields,
\* of a class
PersistedFieldKeys(cls) ==
    {StorageKey(cls, cls.db_fields[n]) : n \in 1..Len(cls.db_fields)}

MemoryFieldKeys(cls) ==
    {DBField_key(cls, cls.ndb_fields[n]) : n \in 1..Len(cls.ndb_fields)}

\* what a field reads when the host stores nothing for it: the declared
\* default of a DBField, the mapping's entry for the default of a KeyField,
\* the host's attribute (or the fallback) for a HostField
UnsetRead(i, field) ==
    Field_get([Cur EXCEPT !.attrs = [h \in Hosts |-> <<>>]], i, field)

CachedKeys(s, h) == {s.inst[i].cls.component_key : i \in Cached(s, h)}

\* the process restarts with the same game code and host h is loaded again
Restarted(h) ==
    at_init([ImportModule(Boot(attributes), GameCode) EXCEPT !.tags = tags], h)

\* C24: the cache and the persisted key list stay in step: after any
\* sequence of successful add and remove calls on a host, a fresh handler
\* that runs initialize() on the host after a restart rehydrates exactly
\* the components the old handler had cached: none that was removed comes
\* back and none that was attached is lost.
C24_RestartRehydratesWhatWasCached ==
    /\ Ok(Restarted("A"))
    /\ CachedKeys(Restarted("A"), "A") = CachedKeys(Cur, "A")

\* C25: the two addressing schemes do not leak into each other: on a host
\* with a handler, get_by_slot(x) and handler.x return nothing or a
\* component whose slot is x, get_by_key(x) returns nothing or a component
\* whose key is x, and has_slot(x) is true only when a cached component has
\* slot x, whatever the other attached components use the string x for.
C25_KeyAndSlotLookupsApart ==
    HasHandler("A") =>
        \A x \in Names :
            /\ LET i == get_by_slot(Cur, "A", x) IN
               i # NoInstance => get_component_slot(instances[i].cls) = x
            /\ LET i == ComponentHandler_getattr(Cur, "A", x) IN
               i # NoInstance => get_component_slot(instances[i].cls) = x
            /\ LET i == get_by_key(Cur, "A", x) IN
               i # NoInstance => get_component_key(instances[i].cls) = x
            /\ has_slot(Cur, "A", x) =>
                   \E i \in Cached(Cur, "A") :
                       get_component_slot(instances[i].cls) = x

====
